---------------------------- MODULE Spec2Model ----------------------------
(***************************************************************************)
(* Model of the citation renumbering, image correlation and image index   *)
(* resolution of the "Chat with Docs" application:                         *)
(*   src/src/core/chat_engine.py  ChatEngine.process_query,                *)
(*                                ChatEngine._extract_images_from_sources  *)
(*   src/src/utils/image.py       process_source_for_images,               *)
(*                                get_document_images                      *)
(*                                                                         *)
(* Strings are sequences of tokens.  A path is a sequence over "/", name   *)
(* letters and the extension tokens ".jpg" / ".png"; an answer text is a   *)
(* sequence of plain words and bracketed numerals; a passage text is a     *)
(* sequence of plain words and markdown image references.                  *)
(***************************************************************************)
EXTENDS Integers, Sequences, FiniteSets, TLC

VARIABLES
    disk,                \* the file system: what os.path.exists / glob.glob see
    document_image_map,  \* st.session_state['document_image_map']
    query_engine,        \* the file names with an entry in st.session_state.query_engine
    file_document_id,    \* st.session_state.file_document_id
    document_responses,  \* st.session_state['document_responses']
    queries,             \* how many process_query calls the session has made
    call,                \* the arguments of the operation that ran last
    result               \* what that operation returned

vars == <<disk, document_image_map, query_engine, file_document_id,
          document_responses, queries, call, result>>

\* the session state that query processing only reads
ingested == <<disk, document_image_map, query_engine, file_document_id>>

-----------------------------------------------------------------------------
(* Bounds of the model *)

MaxMarker == 3      \* largest citation number a synthesized answer uses
MaxTextLen == 4     \* tokens of an answer text given to the renumbering
MaxQueries == 2     \* process_query calls of one session
MaxAnswerLen == 2   \* tokens of an answer a query engine synthesizes
MaxSources == 2     \* source passages a query engine returns
MaxListing == 2     \* files in the document's image directory
MaxRecorded == 2    \* image paths recorded for the document at ingestion

-----------------------------------------------------------------------------
(* Generic sequence helpers *)

Range(s) == {s[i] : i \in 1..Len(s)}

SeqsUpTo(S, n) == UNION {[1..k -> S] : k \in 0..n}

NonEmptySeqsUpTo(S, n) == UNION {[1..k -> S] : k \in 1..n}

IsInjective(s) == \A i, j \in 1..Len(s) : s[i] = s[j] => i = j

\* Python's `needle in haystack` on strings
Contains(haystack, needle) ==
    \E i \in 0..(Len(haystack) - Len(needle)) :
        \A k \in 1..Len(needle) : haystack[i + k] = needle[k]

\* position of the last "/" of a path, 0 when there is none
LastSlash(p) ==
    LET S == {i \in 1..Len(p) : p[i] = "/"}
    IN  IF S = {} THEN 0 ELSE CHOOSE i \in S : \A j \in S : j <= i

-----------------------------------------------------------------------------
(* os.path on token sequences *)

Exts == {".jpg", ".png"}

\* the process's working directory, os.getcwd()
Cwd == <<"/", "w">>

\* config.IMAGES_PATH, the images root directory (relative to Cwd)
IMAGES_PATH == <<"i">>

\* the document identifier of the one ingested document
DocId == <<"d">>

join(dir, name) == dir \o <<"/">> \o name

basename(p) == SubSeq(p, LastSlash(p) + 1, Len(p))

\* os.path.splitext(name)[0]
splitext0(name) ==
    IF Len(name) > 1 /\ name[Len(name)] \in Exts
    THEN SubSeq(name, 1, Len(name) - 1)
    ELSE name

abspath(p) == IF Len(p) > 0 /\ p[1] = "/" THEN p ELSE join(Cwd, p)


-----------------------------------------------------------------------------
(* The file system *)

\* stems of image file names; "1" stands for a numeric suffix injected into a
\* file name during extraction
Stems == {<<"a">>, <<"a", "b">>, <<"a", "1", "b">>}

\* file names: a stem and an extension
Names == {st \o <<e>> : st \in Stems, e \in Exts}

\* the names a file of the document's image directory may have
ListingNames == {st \o <<".jpg">> : st \in Stems} \cup {<<"a", ".png">>}

\* the document's image directory, os.path.join(IMAGES_PATH, doc_id)
DocDir(doc_id) == join(IMAGES_PATH, doc_id)

\* the files outside the document's image directory
OtherFiles == {join(Cwd, <<"a", ".jpg">>), <<"/", "o", "/", "a", "b", ".png">>}

\* a file system: whether the image directory of DocId exists, its files in
\* the order a directory search returns them, and the files elsewhere
Disks ==
    {[docdir |-> TRUE, listing |-> l, other |-> o] :
        l \in {s \in SeqsUpTo(ListingNames, MaxListing) : IsInjective(s)},
        o \in {OtherFiles}}
    \cup {[docdir |-> FALSE, listing |-> <<>>, other |-> OtherFiles]}

\* os.path.exists(p) on file system d
exists(d, p) ==
    LET a == abspath(p)
        dd == abspath(DocDir(DocId))
    IN  \/ a \in d.other
        \/ d.docdir /\ a = dd
        \/ d.docdir /\ \E i \in 1..Len(d.listing) : a = join(dd, d.listing[i])

\* fnmatch of a file name against "*<stem>*.jpg"
MatchesPattern(name, stem) ==
    /\ Len(name) > 0
    /\ name[Len(name)] = ".jpg"
    /\ Contains(SubSeq(name, 1, Len(name) - 1), stem)

\* glob.glob(os.path.join(doc_dir, "*<stem>*.jpg")): the matching files of the
\* directory, in directory order
glob(d, doc_dir, stem) ==
    IF d.docdir /\ abspath(doc_dir) = abspath(DocDir(DocId))
    THEN LET hits == SelectSeq(d.listing, LAMBDA n : MatchesPattern(n, stem))
         IN  [i \in 1..Len(hits) |-> join(doc_dir, hits[i])]
    ELSE <<>>

-----------------------------------------------------------------------------
(* get_document_images, src/src/utils/image.py *)

\* One pass of the loop body for one recorded path: the path appended to
\* valid_images, or found = FALSE when invalid_images is incremented.
ResolveImagePath_LastMatch(d, doc_id, img_path) ==
    LET abs_path == abspath(img_path)
        doc_dir == DocDir(doc_id)
        img_filename == basename(img_path)
        exact_path == join(doc_dir, img_filename)
        matching_files == glob(d, doc_dir, splitext0(basename(img_filename)))
    IN  IF exists(d, abs_path) THEN [found |-> TRUE, path |-> abs_path, step |-> 1]
        ELSE IF exists(d, img_path) THEN [found |-> TRUE, path |-> img_path, step |-> 2]
        ELSE IF exists(d, doc_dir)
             THEN IF exists(d, exact_path)
                  THEN [found |-> TRUE, path |-> exact_path, step |-> 3]
                  ELSE IF matching_files # <<>>
                       THEN [found |-> TRUE,
                             path |-> matching_files[Len(matching_files)], step |-> 4]
                       ELSE [found |-> FALSE, path |-> <<>>, step |-> 5]
             ELSE [found |-> FALSE, path |-> <<>>, step |-> 6]

ResolveImagePath(d, doc_id, img_path) ==
    LET abs_path == abspath(img_path)
        doc_dir == DocDir(doc_id)
        img_filename == basename(img_path)
        exact_path == join(doc_dir, img_filename)
        matching_files == glob(d, doc_dir, splitext0(basename(img_filename)))
    IN  IF exists(d, abs_path) THEN [found |-> TRUE, path |-> abs_path, step |-> 1]
        ELSE IF exists(d, img_path) THEN [found |-> TRUE, path |-> img_path, step |-> 2]
        ELSE IF exists(d, doc_dir)
             THEN IF exists(d, exact_path)
                  THEN [found |-> TRUE, path |-> exact_path, step |-> 3]
                  ELSE IF matching_files # <<>>
                       THEN [found |-> TRUE, path |-> matching_files[1], step |-> 4]
                       ELSE [found |-> FALSE, path |-> <<>>, step |-> 5]
             ELSE [found |-> FALSE, path |-> <<>>, step |-> 6]

RECURSIVE VerifyImages(_, _, _)
\* the for loop over the recorded paths: valid_images and invalid_images
VerifyImages(d, doc_id, images) ==
    IF images = <<>> THEN [valid_images |-> <<>>, invalid_images |-> 0]
    ELSE LET r == ResolveImagePath(d, doc_id, Head(images))
             rest == VerifyImages(d, doc_id, Tail(images))
         IN  IF r.found
             THEN [valid_images |-> <<r.path>> \o rest.valid_images,
                   invalid_images |-> rest.invalid_images]
             ELSE [valid_images |-> rest.valid_images,
                   invalid_images |-> rest.invalid_images + 1]

\* the locals of get_document_images when it returns; valid_images is the
\* return value
GetDocumentImagesRun(d, image_map, doc_id) ==
    IF doc_id \in DOMAIN image_map
    THEN VerifyImages(d, doc_id, image_map[doc_id])
    ELSE [valid_images |-> <<>>, invalid_images |-> 0]

get_document_images(d, image_map, doc_id) ==
    GetDocumentImagesRun(d, image_map, doc_id).valid_images

-----------------------------------------------------------------------------
(* Specification of get_document_images as an operation on a session whose  *)
(* image map and file system were fixed at ingestion                        *)

\* where a recorded path may point: the working directory, the document's
\* image directory, another absolute directory
RecordedDirs == {<<>>, DocDir(DocId) \o <<"/">>, <<"/", "o", "/">>}

RecordedPaths == {dir \o n : dir \in RecordedDirs, n \in Names}

NoDocId == <<"n">>

ImageMaps ==
    {[x \in {DocId} |-> l] : l \in SeqsUpTo(RecordedPaths, MaxRecorded)}
    \cup {[x \in {} |-> <<>>]}

NoCall == [op |-> "none"]

InitIndex ==
    /\ disk \in Disks
    /\ document_image_map \in ImageMaps
    /\ query_engine = {}
    /\ file_document_id = [f \in {} |-> <<>>]
    /\ document_responses = [f \in {} |-> <<>>]
    /\ queries = 0
    /\ call = NoCall
    /\ result = NoCall

GetDocumentImages(doc_id) ==
    /\ call = NoCall
    /\ call' = [op |-> "get_document_images", doc_id |-> doc_id]
    /\ result' = GetDocumentImagesRun(disk, document_image_map, doc_id)
    /\ UNCHANGED <<ingested, document_responses, queries>>

NextIndex == \E doc_id \in {DocId, NoDocId} : GetDocumentImages(doc_id)

SpecIndex == InitIndex /\ [][NextIndex]_vars


(* C10: get_document_images resolves every recorded path independently and  *)
(* in recorded order by the first success of the chain absolute path,       *)
(* path as given, same file name in the document's image directory, first   *)
(* result of the wildcard search on the stem; a path no step resolves is    *)
(* dropped and counted.  Every returned path exists, there is at most one   *)
(* entry per recorded path, and returned + unresolved = recorded.           *)

\* the chain for one recorded path, stated on the file system alone: the set
\* holding the path it resolves to, empty when no step succeeds
ChainResolution(d, doc_id, p) ==
    LET dir == DocDir(doc_id)
        inDir == join(dir, basename(p))
        hits == {i \in 1..Len(d.listing) :
                    MatchesPattern(d.listing[i], splitext0(basename(p)))}
    IN  IF exists(d, abspath(p)) THEN {abspath(p)}
        ELSE IF exists(d, p) THEN {p}
        ELSE IF ~exists(d, dir) THEN {}
        ELSE IF exists(d, inDir) THEN {inDir}
        ELSE IF hits = {} THEN {}
        ELSE {join(dir, d.listing[CHOOSE i \in hits : \A j \in hits : i <= j])}

IndexResolutionChain ==
    (call.op = "get_document_images" /\ call.doc_id \in DOMAIN document_image_map) =>
        LET recorded == document_image_map[call.doc_id]
            kept == SelectSeq(recorded,
                        LAMBDA p : ChainResolution(disk, call.doc_id, p) # {})
            valid == result.valid_images
        IN  /\ Len(valid) = Len(kept)
            /\ \A i \in 1..Len(valid) :
                   /\ valid[i] \in ChainResolution(disk, call.doc_id, kept[i])
                   /\ exists(disk, valid[i])
            /\ Len(valid) <= Len(recorded)
            /\ Len(valid) + result.invalid_images = Len(recorded)

\* two recorded paths: the first resolved by the wildcard search among two
\* matching files, the second dropped
IndexResolutionChainWitness ==
    /\ call.op = "get_document_images"
    /\ call.doc_id \in DOMAIN document_image_map
    /\ Len(document_image_map[call.doc_id]) = 2
    /\ ResolveImagePath(disk, call.doc_id, document_image_map[call.doc_id][1]).step = 4
    /\ Len(glob(disk, DocDir(call.doc_id),
                splitext0(basename(document_image_map[call.doc_id][1])))) = 2
    /\ ResolveImagePath(disk, call.doc_id, document_image_map[call.doc_id][2]).step = 5
    /\ Len(result.valid_images) = 1
    /\ result.invalid_images = 1


\* a file name without the numeric suffix injected during extraction
StripInjected(name) == SelectSeq(name, LAMBDA c : c # "1")

\* the files of the document's image directory that a recorded path names once
\* the injected suffix is ignored
SuffixedCopies(d, doc_id, p) ==
    {join(DocDir(doc_id), d.listing[i]) : i \in
        {i \in 1..Len(d.listing) : StripInjected(d.listing[i]) = basename(p)}}

(* C11: a recorded path that no longer exists verbatim, but whose file name *)
(* matches a file of the document's image directory when a numeric suffix   *)
(* injected during extraction is ignored (recorded P19-1044.pdf-3-0.jpg, on *)
(* disk P19-1044_1743486037.pdf-3-0.jpg), resolves to that file.            *)
InjectedSuffixResolves ==
    (call.op = "get_document_images" /\ call.doc_id \in DOMAIN document_image_map) =>
        \A k \in 1..Len(document_image_map[call.doc_id]) :
            LET p == document_image_map[call.doc_id][k]
            IN  (~exists(disk, p) /\ SuffixedCopies(disk, call.doc_id, p) # {}) =>
                    \E j \in 1..Len(result.valid_images) :
                        result.valid_images[j] \in SuffixedCopies(disk, call.doc_id, p)

-----------------------------------------------------------------------------
(* Answer texts and citation renumbering,                                   *)
(* ChatEngine.process_query lines 123-143                                   *)

\* a plain piece of text that the pattern \[(\d+)\] does not match
Word(k) == [t |-> "w", n |-> k, pad |-> 0]

\* the text "[N]", written with `pad` leading zeros
Marker(k, zeros) == [t |-> "cite", n |-> k, pad |-> zeros]

\* the two error answers of process_query
ErrorText(k) == <<[t |-> "error", n |-> k, pad |-> 0]>>

IsMarker(tok) == tok.t = "cite"

\* re.findall(r"\[(\d+)\]", text) followed by int(): the numbers of the
\* markers, in text order
MarkerNumbers(text) ==
    LET ms == SelectSeq(text, IsMarker)
    IN  [i \in 1..Len(ms) |-> ms[i].n]

RECURSIVE Distinct(_)
\* the first occurrences of the elements of a sequence, in order
Distinct(s) ==
    IF s = <<>> THEN <<>>
    ELSE LET init == Distinct(SubSeq(s, 1, Len(s) - 1))
             last == s[Len(s)]
         IN  IF last \in Range(init) THEN init ELSE Append(init, last)

\* utils.source.extract_citation_indices: the distinct bracketed integers of
\* the text in first-occurrence order
extract_citation_indices(text) == Distinct(MarkerNumbers(text))

EmptyMap == [x \in {} |-> 0]

RECURSIVE BuildCitationMap_ZeroBased(_)
BuildCitationMap_ZeroBased(citation_indices) ==
    IF citation_indices = <<>> THEN EmptyMap
    ELSE LET citation_map ==
                 BuildCitationMap_ZeroBased(
                     SubSeq(citation_indices, 1, Len(citation_indices) - 1))
             idx == citation_indices[Len(citation_indices)]
         IN  IF idx \in DOMAIN citation_map THEN citation_map
             ELSE [x \in DOMAIN citation_map \cup {idx} |->
                      IF x = idx THEN Cardinality(DOMAIN citation_map)
                      ELSE citation_map[x]]

RECURSIVE BuildCitationMap(_)
\* the loop of lines 131-134 over citation_indices
BuildCitationMap(citation_indices) ==
    IF citation_indices = <<>> THEN EmptyMap
    ELSE LET citation_map ==
                 BuildCitationMap(
                     SubSeq(citation_indices, 1, Len(citation_indices) - 1))
             idx == citation_indices[Len(citation_indices)]
         IN  IF idx \in DOMAIN citation_map THEN citation_map
             ELSE [x \in DOMAIN citation_map \cup {idx} |->
                      IF x = idx THEN Cardinality(DOMAIN citation_map) + 1
                      ELSE citation_map[x]]

replace_citation_KeepNumber(citation_map, match) ==
    LET orig_num == match.n
        new_num == orig_num
    IN  Marker(new_num, 0)

\* the replacement of one match: int() drops the leading zeros and the
\* f-string writes the new number without any
replace_citation(citation_map, match) ==
    LET orig_num == match.n
        new_num == IF orig_num \in DOMAIN citation_map
                   THEN citation_map[orig_num] ELSE orig_num
    IN  Marker(new_num, 0)

\* first marker of a text, 0 when it has none
FirstMarker(text) ==
    IF \E i \in 1..Len(text) : IsMarker(text[i])
    THEN CHOOSE i \in 1..Len(text) :
             IsMarker(text[i]) /\ \A j \in 1..(i - 1) : ~IsMarker(text[j])
    ELSE 0

re_sub_CountOne(citation_map, text) ==
    [i \in 1..Len(text) |->
        IF i = FirstMarker(text) THEN replace_citation(citation_map, text[i])
        ELSE text[i]]

\* re.sub(r"\[(\d+)\]", replace_citation, text)
re_sub(citation_map, text) ==
    [i \in 1..Len(text) |->
        IF IsMarker(text[i]) THEN replace_citation(citation_map, text[i]) ELSE text[i]]

\* the citation renumbering of process_query: the map and the rewritten text
RenumberCitations(synthesized_answer) ==
    LET citation_map == BuildCitationMap(extract_citation_indices(synthesized_answer))
    IN  [citation_map |-> citation_map,
         answer |-> re_sub(citation_map, synthesized_answer)]

-----------------------------------------------------------------------------
(* Specification of the renumbering alone, on every bounded answer text     *)

AnswerTokens ==
    {Word(0), Word(1)}
    \cup {Marker(k, 0) : k \in 1..MaxMarker}
    \cup {Marker(1, 1)}

AnswerTexts == SeqsUpTo(AnswerTokens, MaxTextLen)

InitRenumber ==
    /\ disk = [docdir |-> FALSE, listing |-> <<>>, other |-> {}]
    /\ document_image_map = [x \in {} |-> <<>>]
    /\ query_engine = {}
    /\ file_document_id = [f \in {} |-> <<>>]
    /\ document_responses = [f \in {} |-> <<>>]
    /\ queries = 0
    /\ call = NoCall
    /\ result = NoCall

Renumber(text) ==
    /\ call = NoCall
    /\ call' = [op |-> "renumber", text |-> text]
    /\ result' = RenumberCitations(text)
    /\ UNCHANGED <<ingested, document_responses, queries>>

\* the renumbering applied to the text a first application returned
RenumberAgain ==
    /\ call.op = "renumber"
    /\ call' = [op |-> "renumber_again", text |-> result.answer,
                original |-> call.text]
    /\ result' = RenumberCitations(result.answer)
    /\ UNCHANGED <<ingested, document_responses, queries>>

NextRenumber ==
    \/ \E text \in AnswerTexts : Renumber(text)
    \/ RenumberAgain

SpecRenumber == InitRenumber /\ [][NextRenumber]_vars

\* positions of the markers of a text
MarkerPositions(text) == {i \in 1..Len(text) : IsMarker(text[i])}

\* position of the first marker with number k
FirstOccurrence(text, k) ==
    CHOOSE i \in MarkerPositions(text) :
        /\ text[i].n = k
        /\ \A j \in MarkerPositions(text) : text[j].n = k => i <= j

(* C3: the citation map has as domain exactly the distinct bracketed        *)
(* integers of the text and maps the k-th distinct one, in first-occurrence *)
(* order, to k: its values are 1..K without gaps or repeats; markers        *)
(* [3],[1],[3],[2] give {3:1, 1:2, 2:3}.                                     *)
CitationMapFirstSeenOrder ==
    call.op = "renumber" =>
        LET text == call.text
            m == result.citation_map
            D == {text[i].n : i \in MarkerPositions(text)}
        IN  /\ DOMAIN m = D
            /\ \A k \in D :
                   m[k] = Cardinality({j \in D :
                              FirstOccurrence(text, j) <= FirstOccurrence(text, k)})
            /\ {m[k] : k \in D} = 1..Cardinality(D)
            /\ \A j, k \in D : m[j] = m[k] => j = k
            /\ (text = <<Marker(3, 0), Marker(1, 0), Marker(3, 0), Marker(2, 0)>>
                  => m = (3 :> 1) @@ (1 :> 2) @@ (2 :> 3))

CitationMapWitness ==
    /\ call.op = "renumber"
    /\ call.text = <<Marker(3, 0), Marker(1, 0), Marker(3, 0), Marker(2, 0)>>
    /\ result.citation_map = (3 :> 1) @@ (1 :> 2) @@ (2 :> 3)

(* C4: the rewrite replaces every bracketed integer [N] by [map(N)] at the  *)
(* same position and leaves all other text unchanged; a bracketed integer   *)
(* without a map entry keeps its number; a text without bracketed integers  *)
(* is returned unmodified with an empty map.                                *)
RewriteReplacesMarkersInPlace ==
    call.op = "renumber" =>
        LET text == call.text
            m == result.citation_map
            out == result.answer
        IN  /\ Len(out) = Len(text)
            /\ \A i \in 1..Len(text) :
                   /\ ~IsMarker(text[i]) => out[i] = text[i]
                   /\ (IsMarker(text[i]) /\ text[i].n \in DOMAIN m)
                          => out[i] = Marker(m[text[i].n], 0)
                   /\ (IsMarker(text[i]) /\ text[i].n \notin DOMAIN m)
                          => (IsMarker(out[i]) /\ out[i].n = text[i].n)
            /\ MarkerPositions(text) = {} => (out = text /\ m = EmptyMap)

\* [3] w [1] [3] is rewritten to [1] w [2] [1]
RewriteWitness ==
    /\ call.op = "renumber"
    /\ call.text = <<Marker(3, 0), Word(0), Marker(1, 0), Marker(3, 0)>>
    /\ result.answer = <<Marker(1, 0), Word(0), Marker(2, 0), Marker(1, 0)>>

(* C14: citation renumbering is idempotent: applied to a text it already   *)
(* produced, it builds the identity map on 1..K, K being the number of      *)
(* distinct markers, and returns the text unchanged, for every input text.  *)
RenumberingIsIdempotent ==
    call.op = "renumber_again" =>
        LET K == Cardinality({call.text[i].n : i \in MarkerPositions(call.text)})
        IN  /\ result.citation_map = [k \in 1..K |-> k]
            /\ result.answer = call.text

\* [3] w [2] [3], first rewritten to [1] w [2] [1], is then left as it is
RenumberingIsIdempotentWitness ==
    /\ call.op = "renumber_again"
    /\ call.original = <<Marker(3, 0), Word(0), Marker(2, 0), Marker(3, 0)>>
    /\ call.text = <<Marker(1, 0), Word(0), Marker(2, 0), Marker(1, 0)>>
    /\ result.answer = call.text
    /\ result.citation_map = (1 :> 1) @@ (2 :> 2)

-----------------------------------------------------------------------------
(* Source passages and Image Records *)

\* a metadata value 'page': an int, or anything else (absent, a string)
IntPage(k) == [isint |-> TRUE, v |-> k]
NoPage == [isint |-> FALSE, v |-> 0]

\* the 'images' metadata field: absent; a string that is not JSON; JSON that
\* is not a list; a JSON list
NoImagesField == [kind |-> "absent", entries |-> <<>>]
BadJsonField == [kind |-> "badjson", entries |-> <<>>]
NotListField == [kind |-> "notlist", entries |-> <<>>]
ListField(es) == [kind |-> "list", entries |-> es]

\* an element of the JSON list: an object with optional 'file_path', 'path'
\* and 'caption' (<<>> and "" when absent), or a value that is not an object
MetaEntry(fp, pth, cap) == [dict |-> TRUE, file_path |-> fp, path |-> pth, caption |-> cap]
NotAnObject == [dict |-> FALSE, file_path |-> <<>>, path |-> <<>>, caption |-> ""]

\* tokens of a passage text: a plain word, or a reference ![](path)
TextWord == [t |-> "w", path |-> <<>>]
ImageRef(pth) == [t |-> "img", path |-> pth]

\* a source node: meta is "dict" (metadata is a mapping), "notdict" (the
\* attribute holds something else, e.g. None) or "missing" (no attribute)
Passage(m, pg, imgs, txt) == [meta |-> m, page |-> pg, images |-> imgs, text |-> txt]

\* an Image Record {key: p, 'caption': caption}, key being 'file_path' or 'path'
ImageRecord(k, pth, cap) == [key |-> k, p |-> pth, caption |-> cap]

\* img.get('file_path'); <<>> stands for None
FilePathOf(img) == IF img.key = "file_path" THEN img.p ELSE <<>>

\* f"Image from page {page_display}"
PageCaption(page_num) ==
    "Image from page " \o ToString(IF page_num.isint THEN page_num.v + 1 ELSE 1)

-----------------------------------------------------------------------------
(* process_source_for_images, src/src/utils/image.py *)

\* re.findall(r'!\[\]\(([^)]+)\)', text)
image_matches(text) ==
    LET refs == SelectSeq(text, LAMBDA tok : tok.t = "img")
    IN  [i \in 1..Len(refs) |-> refs[i].path]

\* the images one reference adds: the path itself when it is in the index,
\* else the first index entry that contains the reference's file name
ReferenceImages(img_path, page_num, available_images) ==
    LET img_filename == basename(img_path)
        hits == {i \in 1..Len(available_images) :
                    Contains(available_images[i], img_filename)}
    IN  IF img_path \in Range(available_images)
        THEN <<ImageRecord("path", img_path, PageCaption(page_num))>>
        ELSE IF hits = {} THEN <<>>
        ELSE <<ImageRecord("path",
                           available_images[CHOOSE i \in hits : \A j \in hits : i <= j],
                           PageCaption(page_num))>>

RECURSIVE InlineImages(_, _, _)
\* the loop over image_matches
InlineImages(matches, page_num, available_images) ==
    IF matches = <<>> THEN <<>>
    ELSE ReferenceImages(Head(matches), page_num, available_images)
         \o InlineImages(Tail(matches), page_num, available_images)

\* the metadata fallback: the first entry of the JSON list whose 'file_path'
\* is in the index, and no other
FallbackImages(images_field, page_num, available_images) ==
    IF images_field.kind # "list" THEN <<>>
    ELSE LET es == images_field.entries
             hits == {i \in 1..Len(es) :
                         /\ es[i].dict
                         /\ es[i].file_path # <<>>
                         /\ es[i].file_path \in Range(available_images)}
         IN  IF hits = {} THEN <<>>
             ELSE <<ImageRecord("path",
                                es[CHOOSE i \in hits : \A j \in hits : i <= j].file_path,
                                PageCaption(page_num))>>

\* process_source_for_images: raised when metadata.get fails because the
\* metadata is not a mapping
process_source_for_images(source, current_doc_id, available_images) ==
    IF source.meta = "missing" THEN [raised |-> FALSE, images |-> <<>>]
    ELSE IF source.meta = "notdict" THEN [raised |-> TRUE, images |-> <<>>]
    ELSE LET inline == InlineImages(image_matches(source.text), source.page,
                                    available_images)
         IN  IF inline # <<>> THEN [raised |-> FALSE, images |-> inline]
             ELSE [raised |-> FALSE,
                   images |-> FallbackImages(source.images, source.page,
                                             available_images)]


-----------------------------------------------------------------------------
(* ChatEngine._extract_images_from_sources, src/src/core/chat_engine.py *)

\* an entry of st.session_state['document_responses']: the empty dict that
\* line 149 creates, or a stored response
EmptyEntry ==
    [stored |-> FALSE, last_query |-> "", last_response |-> <<>>, answer |-> <<>>,
     sources |-> <<>>, images |-> <<>>]

StoredEntry(prompt, answer, source_nodes, images) ==
    [stored |-> TRUE, last_query |-> prompt, last_response |-> answer,
     answer |-> answer, sources |-> source_nodes, images |-> images]

InRangeIndices_ZeroBased(cited_indices, source_nodes) ==
    SelectSeq(cited_indices, LAMBDA idx : 1 <= idx /\ idx < Len(source_nodes))

\* lines 221-223: the cited indices that select a passage, in citation order
InRangeIndices(cited_indices, source_nodes) ==
    SelectSeq(cited_indices, LAMBDA idx : 1 <= idx /\ idx <= Len(source_nodes))

CitedSources_AllSources(responses, file_name, source_nodes) == source_nodes

\* lines 208-223: the passages cited by the answer text stored for the file
CitedSources(responses, file_name, source_nodes) ==
    IF file_name \in DOMAIN responses
    THEN LET answer_text == responses[file_name].answer
             cited_indices == extract_citation_indices(answer_text)
             valid == InRangeIndices(cited_indices, source_nodes)
         IN  [i \in 1..Len(valid) |-> source_nodes[valid[i]]]
    ELSE <<>>

RECURSIVE AddMetadataImages(_, _)
\* lines 259-267: the loop over the parsed list; an element that is not an
\* object raises and ends the loop
AddMetadataImages(images, image_meta_list) ==
    IF image_meta_list = <<>> THEN images
    ELSE LET img_meta == Head(image_meta_list)
             img_path == IF img_meta.file_path # <<>> THEN img_meta.file_path
                         ELSE img_meta.path
         IN  IF ~img_meta.dict THEN images
             ELSE IF img_path # <<>>
                     /\ \A i \in 1..Len(images) : FilePathOf(images[i]) # img_path
                  THEN AddMetadataImages(
                           Append(images,
                                  ImageRecord("file_path", img_path, img_meta.caption)),
                           Tail(image_meta_list))
                  ELSE AddMetadataImages(images, Tail(image_meta_list))

\* lines 255-269: json.loads of the 'images' field and the loop, inside try
MetadataImages(images, source) ==
    IF source.meta = "dict" /\ source.images.kind = "list"
    THEN AddMetadataImages(images, source.images.entries)
    ELSE images

RECURSIVE AddSourceImages(_, _)
\* lines 272-275
AddSourceImages(images, source_images) ==
    IF source_images = <<>> THEN images
    ELSE LET img_info == Head(source_images)
         IN  IF \A i \in 1..Len(images) : FilePathOf(images[i]) # FilePathOf(img_info)
             THEN AddSourceImages(Append(images, img_info), Tail(source_images))
             ELSE AddSourceImages(images, Tail(source_images))

RECURSIVE CollectImages(_, _, _, _)
\* lines 240-275: the loop over the cited sources
CollectImages(sources_to_process, images, doc_id, available_images) ==
    IF sources_to_process = <<>> THEN [raised |-> FALSE, images |-> images]
    ELSE LET source == Head(sources_to_process)
             src == process_source_for_images(source, doc_id, available_images)
         IN  IF src.raised THEN [raised |-> TRUE, images |-> <<>>]
             ELSE CollectImages(Tail(sources_to_process),
                                AddSourceImages(MetadataImages(images, source),
                                                src.images),
                                doc_id, available_images)

\* _extract_images_from_sources on the session state (responses, docids,
\* image_map) and the file system d; raised when an exception leaves it
extract_images_from_sources(source_nodes, file_name, responses, docids, image_map, d) ==
    IF source_nodes = <<>> THEN [raised |-> FALSE, images |-> <<>>]
    ELSE IF file_name \notin DOMAIN docids THEN [raised |-> FALSE, images |-> <<>>]
    ELSE LET doc_id == docids[file_name]
             available_images == get_document_images(d, image_map, doc_id)
             cited_sources == CitedSources(responses, file_name, source_nodes)
         IN  IF cited_sources = <<>> THEN [raised |-> FALSE, images |-> <<>>]
             ELSE CollectImages(cited_sources, <<>>, doc_id, available_images)


-----------------------------------------------------------------------------
(* ChatEngine.process_query, src/src/core/chat_engine.py *)

\* "Error: File not loaded or processed correctly."
NotLoadedError == ErrorText(1)

\* f"Error processing your query: {str(e)}"
QueryError == ErrorText(2)

ErrorResult(answer) == [answer |-> answer, sources |-> <<>>, images |-> <<>>]

ExceptHandler_KeepSources(source_nodes) ==
    [answer |-> QueryError, sources |-> source_nodes, images |-> <<>>]

\* lines 169-175: the handler of the try block; the source nodes retrieved
\* before the exception are not returned
ExceptHandler(source_nodes) == ErrorResult(QueryError)

\* lines 146-149: the entry of the file is created empty when it is missing
EnsureEntry(responses, file_name) ==
    IF file_name \in DOMAIN responses THEN responses
    ELSE [f \in DOMAIN responses \cup {file_name} |->
             IF f = file_name THEN EmptyEntry ELSE responses[f]]

\* lines 155-161
StoreResponse_KeepImages(responses, file_name, prompt, answer, source_nodes, images) ==
    [responses EXCEPT ![file_name] =
        StoredEntry(prompt, answer, source_nodes, responses[file_name].images)]

StoreResponse(responses, file_name, prompt, answer, source_nodes, images) ==
    [responses EXCEPT ![file_name] = StoredEntry(prompt, answer, source_nodes, images)]

\* One call of process_query.  response is what query_engine[file_name].query
\* does: it raises, or returns an answer text and source nodes.
ProcessQuery(prompt, file_name, response) ==
    IF file_name \notin query_engine
    THEN /\ call' = [op |-> "process_query", prompt |-> prompt,
                     file_name |-> file_name, outcome |-> "no_engine"]
         /\ result' = ErrorResult(NotLoadedError)
         /\ UNCHANGED <<ingested, document_responses>>
    ELSE IF response.raises
    THEN /\ call' = [op |-> "process_query", prompt |-> prompt,
                     file_name |-> file_name, outcome |-> "query_raised"]
         /\ result' = ExceptHandler(<<>>)
         /\ UNCHANGED <<ingested, document_responses>>
    ELSE LET source_nodes == response.source_nodes
             synthesized_answer == RenumberCitations(response.answer).answer
             responses == EnsureEntry(document_responses, file_name)
             extracted == extract_images_from_sources(
                              source_nodes, file_name, responses,
                              file_document_id, document_image_map, disk)
         IN  IF extracted.raised
             THEN /\ call' = [op |-> "process_query", prompt |-> prompt,
                              file_name |-> file_name, outcome |-> "post_raised"]
                  /\ document_responses' = responses
                  /\ result' = ExceptHandler(source_nodes)
                  /\ UNCHANGED ingested
             ELSE /\ call' = [op |-> "process_query", prompt |-> prompt,
                              file_name |-> file_name, outcome |-> "ok"]
                  /\ document_responses' =
                         StoreResponse(responses, file_name, prompt,
                                       synthesized_answer, source_nodes,
                                       extracted.images)
                  /\ result' = [answer |-> synthesized_answer,
                                sources |-> source_nodes,
                                images |-> extracted.images]
                  /\ UNCHANGED ingested

-----------------------------------------------------------------------------
(* The session: one ingested document with two extracted images, a second   *)
(* document without a document id, and queries in any order                 *)

\* the two images of the document as get_document_images returns them
ImageA == join(abspath(DocDir(DocId)), <<"a", ".jpg">>)
ImageB == join(abspath(DocDir(DocId)), <<"a", "b", ".jpg">>)

\* a path recorded in a passage's metadata for an image that was since removed
ImageGone == join(DocDir(DocId), <<"a", "1", "b", ".png">>)

\* the source passages the query engine of the ingested document retrieves
PassageFigure ==
    Passage("dict", IntPage(0), ListField(<<MetaEntry(ImageA, <<>>, "Figure 1")>>),
            <<TextWord, ImageRef(ImageA)>>)
PassageRemoved ==
    Passage("dict", NoPage, ListField(<<MetaEntry(<<>>, ImageGone, "")>>), <<TextWord>>)
PassageNoMapping ==
    Passage("notdict", NoPage, NoImagesField, <<TextWord>>)
PassageInline ==
    Passage("dict", IntPage(2), NoImagesField, <<ImageRef(ImageB), TextWord>>)
PassagePlain ==
    Passage("dict", IntPage(1), BadJsonField, <<TextWord>>)

RetrievedPassages ==
    {PassageFigure, PassageRemoved, PassageNoMapping, PassageInline, PassagePlain}

Prompts == {"q1", "q2"}

FileNames == {"doc.pdf", "other.pdf", "unknown.pdf"}

Raises == [raises |-> TRUE, answer |-> <<>>, source_nodes |-> <<>>]

Response(answer, source_nodes) ==
    [raises |-> FALSE, answer |-> answer, source_nodes |-> source_nodes]

\* what the query engine of a file may do on one query
EngineResponses(file_name) ==
    IF file_name = "doc.pdf"
    THEN {Raises} \cup
         {Response(a, ns) :
             a \in SeqsUpTo({Word(0)} \cup {Marker(k, 0) : k \in 1..MaxSources},
                            MaxAnswerLen),
             ns \in SeqsUpTo(RetrievedPassages, MaxSources)}
    ELSE {Raises, Response(<<Marker(1, 0)>>, <<PassagePlain>>)}

Init ==
    /\ disk = [docdir |-> TRUE,
               listing |-> <<<<"a", ".jpg">>, <<"a", "b", ".jpg">>>>,
               other |-> OtherFiles]
    /\ document_image_map =
           [x \in {DocId} |-> <<join(DocDir(DocId), <<"a", ".jpg">>),
                                join(DocDir(DocId), <<"a", "b", ".jpg">>)>>]
    /\ query_engine = {"doc.pdf", "other.pdf"}
    /\ file_document_id = [f \in {"doc.pdf"} |-> DocId]
    /\ document_responses = [f \in {} |-> EmptyEntry]
    /\ queries = 0
    /\ call = NoCall
    /\ result = NoCall

Query ==
    /\ queries < MaxQueries
    /\ queries' = queries + 1
    /\ \E prompt \in Prompts, file_name \in FileNames :
           \E response \in EngineResponses(file_name) :
               ProcessQuery(prompt, file_name, response)

Next == Query

Spec == Init /\ [][Next]_vars


-----------------------------------------------------------------------------
(* Properties of process_query *)

Succeeded == call.op = "process_query" /\ call.outcome = "ok"

\* the numbers of the markers of an answer that select one of its passages
CitedPositions(answer, source_nodes) ==
    {k \in Range(MarkerNumbers(answer)) : 1 <= k /\ k <= Len(source_nodes)}

\* the image paths a passage refers to, inline or in its images metadata
PathsOfPassage(source) ==
    {r.p : r \in Range(process_source_for_images(
                          source, DocId,
                          get_document_images(disk, document_image_map, DocId)).images)}
    \cup (IF source.meta = "dict" /\ source.images.kind = "list"
          THEN {e.file_path : e \in Range(source.images.entries)}
               \cup {e.path : e \in Range(source.images.entries)}
          ELSE {})

(* C1: a successful process_query returns Image Records only for passages   *)
(* of that call that an in-range marker of the returned (renumbered) answer *)
(* cites; an answer without markers comes with no images, whatever earlier  *)
(* queries on the document returned.                                        *)
ImagesOnlyFromCitedPassages ==
    Succeeded =>
        /\ \A i \in 1..Len(result.images) :
               \E k \in CitedPositions(result.answer, result.sources) :
                   result.images[i].p \in PathsOfPassage(result.sources[k])
        /\ MarkerNumbers(result.answer) = <<>> => result.images = <<>>

(* C5: the returned image list never holds two records with the same image  *)
(* path, whether the path is stored under 'file_path' or under 'path'.      *)
NoTwoRecordsWithSamePath ==
    Succeeded =>
        \A i, j \in 1..Len(result.images) :
            result.images[i].p = result.images[j].p => i = j

(* C6: every returned Image Record has a path that is an entry of the       *)
(* document's image index as get_document_images returns it.                *)
ImagesAreIndexEntries ==
    Succeeded =>
        \A i \in 1..Len(result.images) :
            result.images[i].p \in
                Range(get_document_images(disk, document_image_map, DocId))

(* C7: no exception propagates out of the image correlator, whatever the    *)
(* metadata of the cited passages is; in process_query the correlator is    *)
(* the one post-processing step that can raise.                             *)
CorrelatorNeverRaises ==
    ~(call.op = "process_query" /\ call.outcome = "post_raised")

(* C8: process_query never propagates a failure: without a query engine,    *)
(* or when the query or a post-processing step raises, it returns an error  *)
(* string with empty sources and images; non-empty sources or images come   *)
(* only from a fully successful query.                                      *)
FailuresGiveErrorShapedResult ==
    call.op = "process_query" =>
        /\ call.outcome \in {"no_engine", "query_raised", "post_raised", "ok"}
        /\ call.file_name \notin query_engine =>
               (call.outcome = "no_engine" /\ result.answer = NotLoadedError)
        /\ call.outcome # "ok" =>
               /\ result.answer \in {NotLoadedError, QueryError}
               /\ result.sources = <<>>
               /\ result.images = <<>>
        /\ (result.sources # <<>> \/ result.images # <<>>) => call.outcome = "ok"
        /\ call.outcome = "ok" => result.answer \notin {NotLoadedError, QueryError}

\* a query whose image correlation raised after two passages were retrieved
FailureWitness ==
    /\ call.op = "process_query"
    /\ call.outcome = "post_raised"
    /\ result = [answer |-> QueryError, sources |-> <<>>, images |-> <<>>]

(* C15: a process_query call that ends in an error-shaped result (missing   *)
(* query engine, exception in the query call, exception during citation or  *)
(* image post-processing) leaves the stored responses of every document,    *)
(* the queried one included, as they were before the call: no entry is      *)
(* added, emptied or overwritten.                                           *)
FailedQueryKeepsStoredResponses ==
    [][(call'.op = "process_query" /\ call'.outcome # "ok")
           => document_responses' = document_responses]_vars

\* the image correlation of the query q2 raised; the response stored by q1
\* for the document is still there
FailedQueryKeepsStoredResponsesWitness ==
    /\ call.op = "process_query"
    /\ call.outcome = "post_raised"
    /\ call.prompt = "q2"
    /\ call.file_name \in DOMAIN document_responses
    /\ document_responses[call.file_name].stored
    /\ document_responses[call.file_name].last_query = "q1"

(* C9: after a successful process_query(prompt, file_name) the response     *)
(* stored for file_name holds the answer, sources and images that the call  *)
(* returned and prompt as last_query, in place of what was stored before.   *)
StoredResponseIsReturned ==
    Succeeded =>
        /\ call.file_name \in DOMAIN document_responses
        /\ document_responses[call.file_name].stored
        /\ document_responses[call.file_name].last_query = call.prompt
        /\ document_responses[call.file_name].answer = result.answer
        /\ document_responses[call.file_name].last_response = result.answer
        /\ document_responses[call.file_name].sources = result.sources
        /\ document_responses[call.file_name].images = result.images

\* the second query on the document returns images and they are the stored ones
StoredResponseWitness ==
    /\ Succeeded
    /\ queries = 2
    /\ call.prompt = "q2"
    /\ result.images # <<>>
    /\ document_responses[call.file_name].images = result.images
    /\ document_responses[call.file_name].last_query = "q2"


-----------------------------------------------------------------------------
(* Specification of _extract_images_from_sources alone: the document of the *)
(* session above, any answer text stored for it, any retrieved passages     *)

StoredTokens == {Word(0)} \cup {Marker(k, 0) : k \in 0..MaxMarker}

StoredTexts == SeqsUpTo(StoredTokens, MaxAnswerLen + 1)

InitCorrelate ==
    /\ disk = [docdir |-> TRUE,
               listing |-> <<<<"a", ".jpg">>, <<"a", "b", ".jpg">>>>,
               other |-> OtherFiles]
    /\ document_image_map =
           [x \in {DocId} |-> <<join(DocDir(DocId), <<"a", ".jpg">>),
                                join(DocDir(DocId), <<"a", "b", ".jpg">>)>>]
    /\ query_engine = {"doc.pdf", "other.pdf"}
    /\ file_document_id = [f \in {"doc.pdf"} |-> DocId]
    /\ \E answer \in StoredTexts :
           document_responses =
               [f \in {"doc.pdf", "other.pdf"} |->
                   IF f = "doc.pdf" THEN StoredEntry("q1", answer, <<>>, <<>>)
                   ELSE EmptyEntry]
    /\ queries = 0
    /\ call = NoCall
    /\ result = NoCall

\* one call; cited records the local cited_sources of the call
ExtractImages(source_nodes, file_name) ==
    /\ call = NoCall
    /\ call' = [op |-> "extract_images", source_nodes |-> source_nodes,
                file_name |-> file_name]
    /\ result' =
           LET r == extract_images_from_sources(
                        source_nodes, file_name, document_responses,
                        file_document_id, document_image_map, disk)
           IN  [raised |-> r.raised, images |-> r.images,
                cited |-> CitedSources(document_responses, file_name, source_nodes)]
    /\ UNCHANGED <<ingested, document_responses, queries>>

NextCorrelate ==
    \E source_nodes \in SeqsUpTo(RetrievedPassages, MaxSources),
       file_name \in {"doc.pdf", "other.pdf"} :
        ExtractImages(source_nodes, file_name)

SpecCorrelate == InitCorrelate /\ [][NextCorrelate]_vars

\* the k-th smallest element of a finite set of numbers
RECURSIVE KthSmallest(_, _)
KthSmallest(S, k) ==
    LET least == CHOOSE x \in S : \A y \in S : x <= y
    IN  IF k = 1 THEN least ELSE KthSmallest(S \ {least}, k - 1)

(* C2: _extract_images_from_sources maps each citation index i of the      *)
(* stored answer text to source_nodes[i-1] exactly when                     *)
(* 1 <= i <= len(source_nodes), drops every other index without raising,    *)
(* and draws images only from the passages so selected; when no index       *)
(* selects a passage it returns an empty list, never all passages.          *)
CitedIndicesSelectPassages ==
    (call.op = "extract_images" /\ call.file_name = "doc.pdf") =>
        LET nodes == call.source_nodes
            indices == extract_citation_indices(document_responses["doc.pdf"].answer)
            inRange == {j \in 1..Len(indices) :
                           1 <= indices[j] /\ indices[j] <= Len(nodes)}
            cited == result.cited
        IN  /\ Len(cited) = Cardinality(inRange)
            /\ \A k \in 1..Len(cited) :
                   cited[k] = nodes[indices[KthSmallest(inRange, k)]]
            /\ result.raised => \E k \in 1..Len(cited) : cited[k].meta = "notdict"
            /\ \A i \in 1..Len(result.images) :
                   \E k \in 1..Len(cited) :
                       result.images[i].p \in PathsOfPassage(cited[k])
            /\ inRange = {} => (result.images = <<>> /\ ~result.raised)

\* two passages and the citation indices 1, 2, 3: passages 1 and 2 are
\* processed and index 3 is dropped
CitedIndicesWitness ==
    /\ call.op = "extract_images"
    /\ call.file_name = "doc.pdf"
    /\ Len(call.source_nodes) = 2
    /\ extract_citation_indices(document_responses["doc.pdf"].answer) = <<1, 2, 3>>
    /\ result.cited = call.source_nodes
    /\ ~result.raised
    /\ Len(result.images) >= 2

\* the paths of the Image Records the loop of lines 240-275 offers for one
\* cited passage: its metadata entries with a path, then the records of
\* process_source_for_images
OfferedPaths(source) ==
    {r.p : r \in Range(process_source_for_images(
                          source, DocId,
                          get_document_images(disk, document_image_map, DocId)).images)}
    \cup (IF source.meta = "dict" /\ source.images.kind = "list"
          THEN {IF e.file_path # <<>> THEN e.file_path ELSE e.path :
                    e \in {e \in Range(source.images.entries) : e.dict}} \ {<<>>}
          ELSE {})

(* C12: the correlator skips an Image Record only when a record with the    *)
(* same path is already accumulated, so every path offered by a cited       *)
(* passage is among the returned records; two cited passages whose inline   *)
(* references resolve to two different images yield both images.            *)
SkipsOnlyRepeatedPaths ==
    (call.op = "extract_images" /\ call.file_name = "doc.pdf" /\ ~result.raised) =>
        \A k \in 1..Len(result.cited) :
            \A p \in OfferedPaths(result.cited[k]) :
                \E i \in 1..Len(result.images) : result.images[i].p = p

-----------------------------------------------------------------------------
(* process_source_for_images alone: one call on a passage and an image      *)
(* index drawn from small sets                                              *)

\* most tokens of a passage text
MaxRefs == 2

\* paths a passage text may reference: an index entry verbatim; a relative
\* path with the file name of an index entry; a file name that is part of
\* one index entry's file name; a name that only the directory part of the
\* index entries contains; a name nothing contains
ReferencePaths ==
    {ImageA,
     <<"f", "/", "a", ".jpg">>,
     <<"b", ".jpg">>,
     <<"f", "/", "d">>,
     <<"z", ".jpg">>}

SourceTexts ==
    SeqsUpTo({TextWord} \cup {ImageRef(pth) : pth \in ReferencePaths}, MaxRefs)

SourcePassages ==
    {Passage(mt, pg, imgs, txt) :
        mt \in {"dict", "notdict", "missing"},
        pg \in {IntPage(0), NoPage},
        imgs \in {NoImagesField, ListField(<<MetaEntry(ImageB, <<>>, "Figure 1")>>)},
        txt \in SourceTexts}

\* the lists get_document_images may have returned
IndexLists == {ix \in SeqsUpTo({ImageA, ImageB}, 2) : IsInjective(ix)}

InitSource ==
    /\ disk = [docdir |-> TRUE,
               listing |-> <<<<"a", ".jpg">>, <<"a", "b", ".jpg">>>>,
               other |-> OtherFiles]
    /\ document_image_map =
           [x \in {DocId} |-> <<join(DocDir(DocId), <<"a", ".jpg">>),
                                join(DocDir(DocId), <<"a", "b", ".jpg">>)>>]
    /\ query_engine = {"doc.pdf", "other.pdf"}
    /\ file_document_id = [f \in {"doc.pdf"} |-> DocId]
    /\ document_responses = [f \in {"doc.pdf"} |-> EmptyEntry]
    /\ queries = 0
    /\ call = NoCall
    /\ result = NoCall

ProcessSource(source, available_images) ==
    /\ call = NoCall
    /\ call' = [op |-> "process_source", source |-> source,
                available_images |-> available_images]
    /\ result' = process_source_for_images(source, DocId, available_images)
    /\ UNCHANGED <<ingested, document_responses, queries>>

NextSource ==
    \E source \in SourcePassages, available_images \in IndexLists :
        ProcessSource(source, available_images)

SpecSource == InitSource /\ [][NextSource]_vars

\* the index entry the claim C13 assigns to one reference, as a list of at
\* most one path
ClaimedEntry(ref, index) ==
    LET hits == {i \in 1..Len(index) : Contains(basename(index[i]), basename(ref))}
    IN  IF ref \in Range(index) THEN <<ref>>
        ELSE IF hits = {} THEN <<>>
        ELSE <<index[CHOOSE i \in hits : \A j \in hits : i <= j]>>

RECURSIVE ClaimedEntries(_, _)
ClaimedEntries(refs, index) ==
    IF refs = <<>> THEN <<>>
    ELSE ClaimedEntry(Head(refs), index) \o ClaimedEntries(Tail(refs), index)

(* C13: in process_source_for_images each inline reference of the passage   *)
(* text yields at most one Image Record: the referenced path itself when it *)
(* is an entry of the image index, otherwise the first index entry, in      *)
(* index order, whose file name contains the reference's file name, and     *)
(* nothing when no entry matches; the records are in the order of the       *)
(* references. (The metadata fallback only runs when no record was found.)  *)
InlineReferencesMatchByFilename ==
    (call.op = "process_source" /\ call.source.meta = "dict") =>
        LET expected == ClaimedEntries(image_matches(call.source.text),
                                       call.available_images)
        IN  (expected # <<>> \/ call.source.images.kind # "list") =>
                /\ ~result.raised
                /\ Len(result.images) = Len(expected)
                /\ \A i \in 1..Len(expected) : result.images[i].p = expected[i]

=============================================================================
